---- MODULE Spec2Model ----
(***************************************************************************)
(* nb-runner: the live-trading notebook (3.trade.ipynb) and the backtest   *)
(* notebook (2.backtest.ipynb) as state machines.                          *)
(*                                                                         *)
(* A notebook is a kernel (its global names) plus cells the user runs one  *)
(* at a time, in any order and any number of times.  Each action below is  *)
(* one run of one code cell, translated from the cell's source.  The       *)
(* remote engine is the environment: the reply to a request is drawn from  *)
(* the reply shapes the cell's code distinguishes.                         *)
(*                                                                         *)
(* sent is the history of the requests the cells have issued.  out is the  *)
(* trace of the last cell run: the request it issued, the reply it got     *)
(* (the value of its name response), and what it showed to the user        *)
(* (printed lines, displayed value, uncaught exception).                   *)
(***************************************************************************)
EXTENDS Integers, Sequences, FiniteSets, TLC

VARIABLES
    session_id,      \* kernel global session_id of the trade notebook
    sent,            \* history: the requests issued so far, oldest first
    out,             \* what the last cell run surfaced
    strategyFile,    \* content of <strategy_name>.py on the user's drive
    tradeType,       \* kernel global of the backtest notebook
    weight_method,   \* kernel globals of the backtest notebook's config cell
    custom_weights,
    symbols,
    strategy_config_params,
    lookback_min,
    reports,         \* the files in the backtest report directory
    now,             \* the wall clock, in minutes
    price_df         \* the price DataFrame the system passes to strategy()

configVars == <<weight_method, custom_weights, symbols, strategy_config_params, lookback_min>>
backtestVars == <<tradeType, configVars, reports, now, price_df>>

vars == <<session_id, sent, out, strategyFile, backtestVars>>

(***************************************************************************)
(* Bounds                                                                  *)
(***************************************************************************)
MaxReq == 3          \* requests of the trade notebook kept in the history
MaxRuns == 2         \* requests of the backtest notebook kept in the history
MaxMinute == 1       \* minutes the clock advances
WindowRows == 3      \* rows (minutes) of the price DataFrame

(***************************************************************************)
(* Values                                                                  *)
(***************************************************************************)
Unbound == "<unbound>"     \* a global name no cell has assigned yet
Absent == "<absent>"       \* a key the JSON reply does not have
NoSid == "-"
NoFile == "-"
NoType == "-"

SessionIds == {"s1", "s2"}
Dashboards == {"d1", "d2"}
ErrorTexts == {"invalid file", "quota exceeded"}

\* ---- the strategy file --------------------------------------------------
\* The file is known here by what its strategy(df, config_dict) returns on
\* the price window: a 2-tuple of lists, or something else.
UniverseSample == <<"BTCUSDT", "ETHUSDT", "XRPUSDT">>

StrategyReturn(file) ==
    CASE file = "momentum"  -> [tuple |-> TRUE,  long |-> <<"BTCUSDT">>, short |-> <<"ETHUSDT">>]
      [] file = "overlap"   -> [tuple |-> TRUE,  long |-> <<"BTCUSDT">>, short |-> <<"BTCUSDT">>]
      [] file = "outsider"  -> [tuple |-> TRUE,  long |-> <<"FOOUSDT">>, short |-> <<"ETHUSDT">>]
      [] file = "not_tuple" -> [tuple |-> FALSE, long |-> <<>>,          short |-> <<>>]

StrategyFiles == {"momentum", "overlap", "outsider", "not_tuple"}

Range(s) == {s[i] : i \in DOMAIN s}

\* ---- history ------------------------------------------------------------
NoPayload == [none |-> TRUE]

\* An entry of the history: the operation, the file uploaded, the
\* tradeType parameter, the session_id sent (terminate) or received (run),
\* and how the remote side answered.
Req(op, file, tt, sid, res) ==
    [op |-> op, file |-> file, tt |-> tt, sid |-> sid, res |-> res]

CanSend(max) == Len(sent) < max

NoReply == [kind |-> "none"]

\* The trace of a cell run: the payload of the request it issued, the reply
\* assigned to response, the lines it printed, the value the notebook
\* displays for its last expression, the exception that ended it ("none"
\* when it ran to its end).
Ran(cell, payload, reply, exc, printed, value) ==
    [cell |-> cell, payload |-> payload, reply |-> reply,
     exc |-> exc, printed |-> printed, value |-> value]

\* a cell run that got no reply
Shown(cell, exc, printed, value) == Ran(cell, NoPayload, NoReply, exc, printed, value)

(***************************************************************************)
(* 3.trade.ipynb: upload cells                                             *)
(***************************************************************************)
\* {status, message} as the upload endpoints answer.
UploadReplies ==
    {[kind |-> "upload", status |-> "success", message |-> "uploaded"]}
        \cup {[kind |-> "upload", status |-> "error", message |-> m] : m \in ErrorTexts}

UploadRes(r) == IF r.status = "success" THEN "ok" ELSE "rejected"

\* an upload that posts a second time when the first post raises
UploadCellRetrying(cell, file, tt) ==
    /\ \/ /\ sent' = Append(Append(sent, Req(cell, file, tt, NoSid, "netfail")),
                             Req(cell, file, tt, NoSid, "netfail"))
          /\ out' = Ran(cell, [file |-> file, tradeType |-> tt], NoReply,
                        "ConnectionError", <<>>, <<>>)
       \/ \E r \in UploadReplies :
          /\ sent' = Append(sent, Req(cell, file, tt, NoSid, UploadRes(r)))
          /\ out' = Ran(cell, [file |-> file, tradeType |-> tt], r, "none",
                        << <<"Upload Response:", r.status, r.message>> >>, <<>>)

\* with open(file_path, "rb") as f:
\*     response = requests.post(url, files=files)      (params=params: tt)
\* print("Upload Response:", response.json())
\* The cell looks at neither the status of the reply nor the file's content.
UploadCell(cell, file, tt) ==
    /\ \/ \* requests.post raises
          /\ sent' = Append(sent, Req(cell, file, tt, NoSid, "netfail"))
          /\ out' = Ran(cell, [file |-> file, tradeType |-> tt], NoReply,
                        "ConnectionError", <<>>, <<>>)
       \/ \E r \in UploadReplies :
          /\ sent' = Append(sent, Req(cell, file, tt, NoSid, UploadRes(r)))
          /\ out' = Ran(cell, [file |-> file, tradeType |-> tt], r, "none",
                        << <<"Upload Response:", r.status, r.message>> >>, <<>>)

\* file_path = os.path.join(base_path, strategy_name + ".py")
UploadStrategyCell ==
    /\ CanSend(MaxReq)
    /\ UploadCell("upload_strategy", strategyFile, NoType)
    /\ UNCHANGED <<session_id, strategyFile, backtestVars>>

\* file_path = os.path.join(base_path, config_name + ".py")
UploadConfigCell ==
    /\ CanSend(MaxReq)
    /\ UploadCell("upload_config", "config", NoType)
    /\ UNCHANGED <<session_id, strategyFile, backtestVars>>

(***************************************************************************)
(* 3.trade.ipynb: run-system cell                                          *)
(***************************************************************************)
\* A run-system reply as the cell reads it: the top-level keys session_id
\* and dashboard_url, and the key message, which is missing, a string, or
\* an object with the keys message, session_id and dashboard_url.  A key
\* the reply does not have is Absent.
RunReply(sid, dash, mkind, mtext, msid, mdash) ==
    [kind |-> "run", session_id |-> sid, dashboard_url |-> dash,
     mkind |-> mkind, mtext |-> mtext, msid |-> msid, mdash |-> mdash]

Flat(s, d) == RunReply(s, d, "absent", Absent, Absent, Absent)
Nested(s, d) == RunReply(Absent, Absent, "object", "already running", s, d)
NestedBare(s, d) == RunReply(Absent, Absent, "object", Absent, s, d)
FlatNoDashboard(s) == RunReply(s, Absent, "absent", Absent, Absent, Absent)
ErrorOnly == RunReply(Absent, Absent, "string", "strategy not found", Absent, Absent)

RunReplies ==
    {Flat(s, d) : s \in SessionIds, d \in Dashboards}
        \cup {Nested(s, d) : s \in SessionIds, d \in Dashboards}
        \cup {NestedBare(s, d) : s \in SessionIds, d \in Dashboards}
        \cup {FlatNoDashboard(s) : s \in SessionIds}
        \cup {ErrorOnly}

\* The session the reply carries, in whichever shape.
CarriedSid(r) ==
    IF r.session_id # Absent THEN r.session_id
    ELSE IF r.mkind = "object" /\ r.msid # Absent THEN r.msid
    ELSE NoSid

CarriedDashboard(r) ==
    IF r.session_id # Absent THEN r.dashboard_url
    ELSE IF r.mkind = "object" THEN r.mdash
    ELSE Absent

\* The result of a block: the value session_id has when it ends, the lines
\* printed, the exception that ended it.
Block(sid, printed, exc) == [sid |-> sid, printed |-> printed, exc |-> exc]

\* except:
\*   print('Error :', response.json()['message']['message'])
\*   session_id = response.json()['message']['session_id']
\*   print('session id :', session_id)
\*   print('dashboard :', response.json()['message']['dashboard_url'])
\* entered with session_id = sid and the lines printed so far.
RunExcept(sid, printed, r) ==
    IF r.mkind = "absent" THEN Block(sid, printed, "KeyError")
    ELSE IF r.mkind = "string" THEN Block(sid, printed, "TypeError")
    ELSE IF r.mtext = Absent THEN Block(sid, printed, "KeyError")
    ELSE IF r.msid = Absent
        THEN Block(sid, Append(printed, <<"Error :", r.mtext>>), "KeyError")
    ELSE IF r.mdash = Absent
        THEN Block(r.msid,
                   printed \o << <<"Error :", r.mtext>>, <<"session id :", r.msid>> >>,
                   "KeyError")
    ELSE Block(r.msid,
               printed \o << <<"Error :", r.mtext>>, <<"session id :", r.msid>>,
                             <<"dashboard :", r.mdash>> >>,
               "none")

\* try:
\*   session_id = response.json()['session_id']
\*   print('session id :', response.json()['session_id'])
\*   print('dashboard :', response.json()['dashboard_url'])
\* except: ...
\* cur is the value of session_id before the cell runs.
RunTry(cur, r) ==
    IF r.session_id = Absent THEN RunExcept(cur, <<>>, r)
    ELSE IF r.dashboard_url = Absent
        THEN RunExcept(r.session_id, << <<"session id :", r.session_id>> >>, r)
    ELSE Block(r.session_id,
               << <<"session id :", r.session_id>>, <<"dashboard :", r.dashboard_url>> >>,
               "none")

\* data = {"strategy_name": strategy_name, "method": "rebalancing"}
RunData == [strategy_name |-> "multi_period_momentum", method |-> "rebalancing"]

\* response = requests.post(url, json=data)
\* try: ... except: ...
RunSystemCell ==
    /\ CanSend(MaxReq)
    /\ \/ /\ sent' = Append(sent, Req("run", NoFile, NoType, NoSid, "netfail"))
          /\ out' = Ran("run", RunData, NoReply, "ConnectionError", <<>>, <<>>)
          /\ UNCHANGED session_id
       \/ \E r \in RunReplies :
          LET b == RunTry(session_id, r) IN
          /\ sent' = Append(sent, Req("run", NoFile, NoType, CarriedSid(r),
                                      IF CarriedSid(r) = NoSid THEN "rejected" ELSE "ok"))
          /\ session_id' = b.sid
          /\ out' = Ran("run", RunData, r, b.exc, b.printed, <<>>)
    /\ UNCHANGED <<strategyFile, backtestVars>>

(***************************************************************************)
(* 3.trade.ipynb: terminate cell                                           *)
(***************************************************************************)
\* {status, message} as the terminate endpoint answers: the session was
\* terminated now, it had been terminated before, or an error.
TerminateReplies ==
    {[kind |-> "terminate", status |-> "success", message |-> "terminated"],
     [kind |-> "terminate", status |-> "success", message |-> "already terminated"],
     [kind |-> "terminate", status |-> "error", message |-> "session not found"]}

TerminateRes(r) ==
    IF r.status = "error" THEN "rejected"
    ELSE IF r.message = "already terminated" THEN "noop"
    ELSE "ok"

\* params = {"session_id": f"{session_id}"}
\* response = requests.get(url, params=params)
\* print(response.json())
TerminateCell ==
    /\ \/ \* the name session_id was never assigned: NameError, nothing is sent
          /\ session_id = Unbound
          /\ out' = Shown("terminate", "NameError", <<>>, <<>>)
          /\ UNCHANGED sent
       \/ /\ session_id # Unbound
          /\ CanSend(MaxReq)
          /\ sent' = Append(sent, Req("terminate", NoFile, NoType, session_id, "netfail"))
          /\ out' = Ran("terminate", [session_id |-> session_id], NoReply,
                        "ConnectionError", <<>>, <<>>)
       \/ /\ session_id # Unbound
          /\ CanSend(MaxReq)
          /\ \E r \in TerminateReplies :
                /\ sent' = Append(sent, Req("terminate", NoFile, NoType, session_id,
                                            TerminateRes(r)))
                /\ out' = Ran("terminate", [session_id |-> session_id], r, "none",
                              << <<r.status, r.message>> >>, <<>>)
    /\ UNCHANGED <<session_id, strategyFile, backtestVars>>

(***************************************************************************)
(* 3.trade.ipynb: position cell                                            *)
(***************************************************************************)
Position(sym) == [symbol |-> sym, total |-> 1]

\* The value of the key data in the reply of all-positions.
PositionLists ==
    { <<>>, <<Position("BTCUSDT")>>, <<Position("BTCUSDT"), Position("ETHUSDT")>> }

\* a frame that keeps only the first record (as df.head(1) would)
DataFrameFirstRow(data) ==
    [columns |-> IF data = <<>> THEN <<>> ELSE <<"symbol", "total">>,
     rows |-> IF data = <<>> THEN <<>> ELSE <<data[1]>>]

\* pd.DataFrame(data) for a list of records with the same keys: the keys
\* become the columns and each record a row; the empty list gives a frame
\* without columns and rows.
DataFrame(data) ==
    [columns |-> IF data = <<>> THEN <<>> ELSE <<"symbol", "total">>,
     rows |-> data]

\* df.empty: some axis has length 0
Empty(df) == Len(df.columns) = 0 \/ Len(df.rows) = 0

\* def all_positions(user_key, productType, marginCoin):
\*     response = requests.post(url, json=payload)
\*     data = response.json()['data']
\*     df = pd.DataFrame(data)
\*     if df.empty: print('Everything has been liquidated')
\*     return df
\* USER_KEY = os.getenv("USER_KEY"): the kernel global holding the user's key
USER_KEY == "key of the environment"

\* str.upper() on the margin coins in use
Upper(s) ==
    CASE s = "susdt" -> "SUSDT"
      [] s = "usdt"  -> "USDT"
      [] OTHER       -> s

\* url = f"https://bitgettrader.fin.cloud.ainode.ai/{USER_KEY}/future/position/all-positions"
\* payload = {"user_key": USER_KEY,
\*            "all_positions": {"productType": productType, 'marginCoin': marginCoin.upper()}}
\* Both read the global USER_KEY; the parameter user_key is not used.
PositionsRequest(user_key, productType, marginCoin) ==
    [url |-> <<"https://bitgettrader.fin.cloud.ainode.ai", USER_KEY,
               "future/position/all-positions">>,
     json |-> [user_key |-> USER_KEY,
               productType |-> productType,
               marginCoin |-> Upper(marginCoin)]]

\* What a call of all_positions leaves in the trace: the arguments of the
\* call and the request made from them.
PositionsCall(user_key, productType, marginCoin) ==
    [args |-> [user_key |-> user_key, productType |-> productType, marginCoin |-> marginCoin],
     request |-> PositionsRequest(user_key, productType, marginCoin)]

\* The body of all_positions and the display of the frame it returns.
AllPositions(user_key, productType, marginCoin) ==
    LET call == PositionsCall(user_key, productType, marginCoin) IN
    \/ /\ sent' = Append(sent, Req("positions", NoFile, NoType, NoSid, "netfail"))
       /\ out' = Ran("positions", call, NoReply, "ConnectionError", <<>>, <<>>)
    \/ \* an error payload without the key data
       /\ sent' = Append(sent, Req("positions", NoFile, NoType, NoSid, "rejected"))
       /\ out' = Ran("positions", call,
                     [kind |-> "positions", has_data |-> FALSE, data |-> <<>>,
                      message |-> "invalid user key"],
                     "KeyError", <<>>, <<>>)
    \/ \E data \in PositionLists :
       LET df == DataFrame(data) IN
       /\ sent' = Append(sent, Req("positions", NoFile, NoType, NoSid,
                                   IF data = <<>> THEN "empty" ELSE "residual"))
       /\ out' = Ran("positions", call,
                     [kind |-> "positions", has_data |-> TRUE, data |-> data,
                      message |-> "success"],
                     "none",
                     IF Empty(df) THEN << <<"Everything has been liquidated">> >> ELSE <<>>,
                     df.rows)

\* productType = 'susdt-futures'; marginCoin = 'susdt'
\* df = all_positions(USER_KEY, productType, marginCoin); df
AllPositionsCell ==
    /\ CanSend(MaxReq)
    /\ AllPositions(USER_KEY, "susdt-futures", "susdt")
    /\ UNCHANGED <<session_id, strategyFile, backtestVars>>

\* all_positions called with arguments of the user's choice
UserKeys == {USER_KEY, "key of another account"}
ProductTypes == {"susdt-futures", "usdt-futures"}
MarginCoins == {"susdt", "usdt", "USDT"}

AllPositionsCall ==
    /\ CanSend(MaxReq)
    /\ \E k \in UserKeys, p \in ProductTypes, m \in MarginCoins : AllPositions(k, p, m)
    /\ UNCHANGED <<session_id, strategyFile, backtestVars>>

(***************************************************************************)
(* 3.trade.ipynb: log viewer cell                                          *)
(***************************************************************************)
\* IPython puts the value of session_id into the command line; a name that
\* is not assigned is left as the text {session_id}.
Interpolated(sid) == IF sid = Unbound THEN "{session_id}" ELSE sid

\* modules/log_viewer.py: a blocking loop that reads the log lines of the
\* session until a completion marker or an interrupt; the requests it
\* issues are reads of the log, whichever way it ends.
LogViewerEnds == {"completion marker", "KeyboardInterrupt"}

LogViewer(sid, end) == << Req("logs", NoFile, NoType, sid, "ok") >>

\* a cell that terminates the session when the viewer is interrupted
LogViewerCellTerminating ==
    /\ Len(sent) + 1 < MaxReq
    /\ \E end \in LogViewerEnds :
          LET sid == Interpolated(session_id) IN
          /\ sent' = sent \o LogViewer(sid, end)
                          \o IF end = "KeyboardInterrupt"
                             THEN << Req("terminate", NoFile, NoType, sid, "ok") >>
                             ELSE <<>>
          /\ out' = Ran("log_viewer", [session_id |-> sid], NoReply,
                        IF end = "KeyboardInterrupt" THEN end ELSE "none",
                        << <<"log lines of", sid>> >>, <<>>)
    /\ UNCHANGED <<session_id, strategyFile, backtestVars>>

\* !python .../module/log_viewer.py --USER_KEY {USER_KEY} --session_id {session_id} --save_log true
\* The cell returns when the viewer ends or the user interrupts it.
LogViewerCell ==
    /\ CanSend(MaxReq)
    /\ \E end \in LogViewerEnds :
          LET sid == Interpolated(session_id) IN
          /\ sent' = sent \o LogViewer(sid, end)
          /\ out' = Ran("log_viewer", [session_id |-> sid], NoReply,
                        IF end = "KeyboardInterrupt" THEN end ELSE "none",
                        << <<"log lines of", sid>> >>, <<>>)
    /\ UNCHANGED <<session_id, strategyFile, backtestVars>>

(***************************************************************************)
(* 2.backtest.ipynb: config values                                         *)
(***************************************************************************)
\* Weights are counted in units of 1e-7, so that 1.0 is One.
Unit == 10 * 1000 * 1000
One == Unit
Pct(n) == n * (Unit \div 100)

\* A Python dict is the sequence of its items in insertion order.
Item(k, v) == [key |-> k, value |-> v]
Dict(items) == [py |-> "dict", items |-> items]
PyNone == [py |-> "None"]
PyUnbound == [py |-> "unbound"]
PyAbsent == [py |-> "absent"]

\* Python truthiness of a dict-or-None value: None and {} are falsy.
Truthy(v) == v.py = "dict" /\ Len(v.items) > 0

\* weight_method and custom_weights as a user may write them in the config
\* cell.
Cfg(wm, cw) == [weight_method |-> wm, custom_weights |-> cw]

SampleWeights ==
    Dict(<<Item("BTCUSDT", Pct(50)), Item("ETHUSDT", Pct(30)), Item("XRPUSDT", Pct(20))>>)

ConfigChoices ==
    { Cfg("equal", PyNone),
      Cfg("equal", SampleWeights),
      Cfg("split", SampleWeights),
      Cfg("proportional", PyNone),
      Cfg("custom", PyNone),
      Cfg("custom", Dict(<<>>)),
      Cfg("custom", SampleWeights),
      Cfg("custom", Dict(<<Item("BTCUSDT", Pct(50)), Item("ETHUSDT", Pct(47))>>)),
      Cfg("custom", Dict(<<Item("BTCUSDT", Pct(50)), Item("ETHUSDT", Pct(50) + 5)>>)),
      Cfg("custom", Dict(<<Item("FOOUSDT", Pct(100))>>)),
      Cfg("custom", Dict(<<Item("BTCUSDT", Pct(150)), Item("ETHUSDT", 0 - Pct(50))>>)) }

\* An int value of the kernel.
PyInt(n) == [py |-> "int", v |-> n]

\* "minutes": [int(i*60) for i in hours]
Minutes(hours) == [i \in DOMAIN hours |-> hours[i] * 60]

\* strategy_config_params = {"rebalancing_config": {"rebalancing_interval_hours": ..},
\*                           "strategy_config": {.., "minutes": [int(i*60) for i in hours]}}
\* lookback_min = ..
Params(hours, interval, lookback) ==
    [strategy_config_params |->
        [py |-> "dict",
         rebalancing_interval_hours |-> interval,
         minutes |-> Minutes(hours)],
     lookback_min |-> PyInt(lookback)]

\* the values of the notebook as published
NotebookParams == Params(<<1, 3, 6>>, 72, 360)

\* the published values, and the edits of one value a user may make
ParamChoices ==
    { NotebookParams,
      Params(<<1, 3, 6>>, 24, 360),
      Params(<<1, 3, 6>>, 5, 360),
      Params(<<1, 3, 6>>, 72, 300),
      Params(<<1, 3, 6>>, 72, 400) }

TradeTypes == {"future", "spot"}

strategy_name == "multi_period_momentum"

(***************************************************************************)
(* 2.backtest.ipynb: cells before the run                                  *)
(***************************************************************************)
\* tradeType = 'future' # spot / future
\* strategy_name = 'multi_period_momentum'
TradeTypeCell ==
    /\ \E t \in TradeTypes : tradeType' = t
    /\ out' = Shown("trade_type", "none", <<>>, <<>>)
    /\ UNCHANGED <<session_id, sent, strategyFile, configVars, reports, now, price_df>>

\* params = {'tradeType': tradeType}
\* file_path = f"/content/drive/MyDrive/NeoMatrixAI/{strategy_name}.py"
\* response = requests.post(url, params=params, files=files)
BacktestUploadCell ==
    /\ \/ \* the name tradeType was never assigned
          /\ tradeType = Unbound
          /\ out' = Shown("upload_strategy", "NameError", <<>>, <<>>)
          /\ UNCHANGED sent
       \/ /\ tradeType # Unbound
          /\ CanSend(MaxRuns)
          /\ UploadCell("upload_strategy", strategyFile, tradeType)
    /\ UNCHANGED <<session_id, strategyFile, backtestVars>>

\* The config cell assigns every configuration name at once; the user
\* writes the values.
ConfigCell ==
    /\ \E c \in ConfigChoices, p \in ParamChoices :
          /\ (c = Cfg("equal", PyNone) \/ p = NotebookParams)
          /\ weight_method' = c.weight_method
          /\ custom_weights' = c.custom_weights
          /\ strategy_config_params' = p.strategy_config_params
          /\ lookback_min' = p.lookback_min
    /\ symbols' = UniverseSample
    /\ out' = Shown("config", "none", <<>>, <<>>)
    /\ UNCHANGED <<session_id, sent, strategyFile, tradeType, reports, now, price_df>>

(***************************************************************************)
(* 2.backtest.ipynb: run backtest cell                                     *)
(***************************************************************************)
\* a payload that carries custom_weights whatever the weight method
RequestPayloadAlways(wm, cw, syms, params, lookback) ==
    [endpoint |-> "run/future/backtest/",
     strategy |-> <<strategy_name, ".py">>,
     strategy_config |-> params,
     lookback_minutes |-> lookback,
     symbols |-> syms,
     weight_method |-> wm,
     custom_weights |-> cw]

\* request_payload = {"strategy": strategy_name + '.py', ..., "symbols": symbols,
\*                    "weight_method": weight_method, ...}
\* if weight_method == "custom": request_payload["custom_weights"] = custom_weights
\* endpoint = 'run/future/backtest/'
RequestPayload(wm, cw, syms, params, lookback) ==
    [endpoint |-> "run/future/backtest/",
     strategy |-> <<strategy_name, ".py">>,
     strategy_config |-> params,
     lookback_minutes |-> lookback,
     symbols |-> syms,
     weight_method |-> wm,
     custom_weights |-> IF wm = "custom" THEN cw ELSE PyAbsent]

\* the run cell without its check of custom_weights
RaisesValueErrorNever(wm, cw) == FALSE

\* if weight_method == "custom":
\*     if not custom_weights: raise ValueError(...)
RaisesValueError(wm, cw) == wm = "custom" /\ ~Truthy(cw)

HtmlContents == {"<html>A</html>", "<html>B</html>"}

\* What requests.post and raise_for_status give: a 2xx reply whose JSON has
\* report_type and html_content, a 2xx reply that is no JSON, or an HTTP
\* error status.
BacktestReplies ==
    {[kind |-> "backtest", result |-> "json", report_type |-> "html", html_content |-> h]
        : h \in HtmlContents \cup {Absent, ""}}
    \cup {[kind |-> "backtest", result |-> "json", report_type |-> t, html_content |-> Absent]
        : t \in {"logs_only", "pdf"}}
    \cup {[kind |-> "backtest", result |-> x, report_type |-> Absent, html_content |-> Absent]
        : x \in {"not_json", "http_error"}}

\* requests.post raises
BacktestFailures == {"Timeout", "ConnectionError"}

\* os.path.join(path, f"{datetime.now().strftime('%Y-%m-%d %H:%M')}_{strategy_name}_backtest_report.html")
ReportFilename(minute, name) == <<minute, name, "_backtest_report.html">>

\* a write that leaves the directory as it was
WriteFileNowhere(files, name, content) == files

\* with open(report_filename, "w") as f: f.write(html_content)
WriteFile(files, name, content) ==
    {f \in files : f.name # name} \cup {[name |-> name, content |-> content]}

\* a test of html_content that takes the empty text for a report
HasReportEvenEmpty(r) ==
    r.result = "json" /\ r.report_type = "html" /\ r.html_content # Absent

\* report_type == "html", html_content = response_data.get("html_content")
\* if html_content:
HasReport(r) ==
    r.result = "json" /\ r.report_type = "html" /\ r.html_content \notin {Absent, ""}

\* The lines the cell prints for a reply, by the branch taken; saved tells
\* whether writing the report file succeeded.
BacktestLines(r, saved) ==
    IF r.result = "not_json" THEN << <<"ERROR: Failed to decode JSON response">> >>
    ELSE IF r.result = "http_error" THEN << <<"API call failed: HTTP Error">> >>
    ELSE IF HasReport(r) /\ saved
        THEN << <<"Report Type: HTML Report included.">>,
                <<"HTML report received and saved successfully">>,
                <<"Execution Logs">> >>
    ELSE IF HasReport(r)
        THEN << <<"Report Type: HTML Report included.">>,
                <<"ERROR: Failed to save received HTML report">>,
                <<"Execution Logs">> >>
    ELSE IF r.report_type = "html"
        THEN << <<"Report Type: HTML Report included.">>,
                <<"WARN: Report type was 'html' but no HTML content found in response.">>,
                <<"Execution Logs">> >>
    ELSE IF r.report_type = "logs_only"
        THEN << <<"Report Type: Logs Only (Report generation skipped).">>,
                <<"Execution Logs">> >>
    ELSE << <<"WARN: Received successful response with unknown report_type">>,
            <<"Full JSON Response">> >>

BacktestRes(r) ==
    IF r.result = "json" THEN "ok" ELSE IF r.result = "not_json" THEN "not_json" ELSE "rejected"

\* try:
\*     response = requests.post(url, json=request_payload)
\*     response.raise_for_status()
\*     ... report_type branches ...
\* except ...: print(...)
\* Every exception is caught and printed.
BacktestRequest(payload) ==
    /\ CanSend(MaxRuns)
    /\ \/ \E e \in BacktestFailures :
          /\ sent' = Append(sent, Req("backtest", NoFile, "future", NoSid, "netfail"))
          /\ out' = Ran("backtest", payload, NoReply, "none",
                        << <<"API call failed", e>> >>, <<>>)
          /\ UNCHANGED reports
       \/ \E r \in BacktestReplies :
          /\ sent' = Append(sent, Req("backtest", NoFile, "future", NoSid, BacktestRes(r)))
          /\ \/ /\ HasReport(r)
                /\ reports' = WriteFile(reports, ReportFilename(now, strategy_name),
                                        r.html_content)
                /\ out' = Ran("backtest", payload, r, "none", BacktestLines(r, TRUE), <<>>)
             \/ \* open or write raises: caught, a snippet is printed
                /\ HasReport(r)
                /\ reports' = reports
                /\ out' = Ran("backtest", payload, r, "none", BacktestLines(r, FALSE), <<>>)
             \/ \* os.makedirs(path) raises: outside the inner try, caught by
                \* the last except clause of the cell
                /\ HasReport(r)
                /\ reports = {}
                /\ reports' = reports
                /\ out' = Ran("backtest", payload, r, "none",
                              << <<"Report Type: HTML Report included.">>,
                                 <<"Unexpected error occurred">> >>, <<>>)
             \/ /\ ~HasReport(r)
                /\ reports' = reports
                /\ out' = Ran("backtest", payload, r, "none", BacktestLines(r, FALSE), <<>>)

RunBacktestCell ==
    /\ \/ \* a name the payload uses was never assigned
          /\ (weight_method = Unbound \/ tradeType = Unbound)
          /\ out' = Shown("backtest", "NameError", <<>>, <<>>)
          /\ UNCHANGED <<sent, reports>>
       \/ /\ weight_method # Unbound /\ tradeType # Unbound
          /\ RaisesValueError(weight_method, custom_weights)
          /\ out' = Shown("backtest", "ValueError", <<>>, <<>>)
          /\ UNCHANGED <<sent, reports>>
       \/ /\ weight_method # Unbound /\ tradeType # Unbound
          /\ ~RaisesValueError(weight_method, custom_weights)
          /\ BacktestRequest(RequestPayload(weight_method, custom_weights, symbols,
                                           strategy_config_params, lookback_min))
    /\ UNCHANGED <<session_id, strategyFile, tradeType, configVars, now, price_df>>

\* a minute passes
Tick ==
    /\ now < MaxMinute
    /\ now' = now + 1
    /\ UNCHANGED <<session_id, sent, out, strategyFile, tradeType, configVars, reports, price_df>>

(***************************************************************************)
(* The example strategy of the guides                                      *)
(***************************************************************************)
\* no DataFrame: the notebooks themselves never hold one
NoFrame == <<>>

\* The DataFrames: one column per symbol of the universe, WindowRows rows,
\* oldest first; frame[c][t] is the closing price of column c in row t.
Prices == {1, 2}
Windows == [DOMAIN UniverseSample -> [1..WindowRows -> Prices]]

\* strategy_config: "minutes" a list of periods, "maximum_candidates"
Periods == 1..(WindowRows + 1)
Candidates == 0..Len(UniverseSample)
StrategyConfigs ==
    {[py |-> "dict", minutes |-> <<period, 2 * period>>, maximum_candidates |-> k]
        : period \in Periods, k \in Candidates}

\* frame.iloc[-n] for n >= 1: the row n places from the end, the last row
\* being place 1
iloc(frame, n) == [c \in DOMAIN frame |-> frame[c][Len(frame[c]) - n + 1]]

\* last / base - 1 as an exact fraction
Return(last, base) == [num |-> last - base, den |-> base]

Higher(a, b) == a.num * b.den > b.num * a.den

\* returns.sort_values(ascending=False): the columns in an order in which no
\* return is followed by a higher one; the default sort is not stable, so
\* columns of equal return come in any order.
sort_values(returns) ==
    {order \in [DOMAIN returns -> DOMAIN returns] :
        /\ \A i, j \in DOMAIN returns : i # j => order[i] # order[j]
        /\ \A i \in DOMAIN returns :
              (i + 1) \in DOMAIN returns => ~Higher(returns[order[i + 1]], returns[order[i]])}

\* Series.head(n) and Series.tail(n) for n >= 0
head(order, n) == SubSeq(order, 1, IF n < Len(order) THEN n ELSE Len(order))
tail(order, n) == SubSeq(order, Len(order) - (IF n < Len(order) THEN n ELSE Len(order)) + 1,
                         Len(order))

\* list(series.index): the symbols of the columns
Index(order) == [i \in DOMAIN order |-> UniverseSample[order[i]]]

\* period = strategy_specific_config.get("minutes")[0]
\* maximum_candidates = strategy_specific_config.get("maximum_candidates")
\* returns = df.iloc[-1] / df.iloc[-period] - 1
\* sorted_returns = returns.sort_values(ascending=False)
\* long_candidates = list(sorted_returns.head(maximum_candidates).index)
\* short_candidates = list(sorted_returns.tail(maximum_candidates).index)
\* The outcomes of one call: df.iloc[-period] raises IndexError when the
\* frame has fewer than period rows.
strategy(frame, config) ==
    LET period == config.minutes[1]
        maximum_candidates == config.maximum_candidates
    IN  IF period > WindowRows
        THEN {[exc |-> "IndexError", long |-> <<>>, short |-> <<>>]}
        ELSE LET returns == [c \in DOMAIN frame |->
                                Return(iloc(frame, 1)[c], iloc(frame, period)[c])]
             IN  {[exc |-> "none",
                   long |-> Index(head(sorted_returns, maximum_candidates)),
                   short |-> Index(tail(sorted_returns, maximum_candidates))]
                     : sorted_returns \in sort_values(returns)}

\* longs, shorts = strategy.strategy(df, {"strategy_config": config.strategy_config})
StrategyCall ==
    /\ \E r \in strategy(price_df, strategy_config_params) :
          out' = Shown("strategy", r.exc, <<>>, [long |-> r.long, short |-> r.short])
    /\ UNCHANGED <<session_id, sent, strategyFile, backtestVars>>

(***************************************************************************)
(* The trade notebook                                                      *)
(***************************************************************************)
Fresh ==
    /\ session_id = Unbound
    /\ sent = <<>>
    /\ out = Shown("none", "none", <<>>, <<>>)
    /\ tradeType = Unbound
    /\ weight_method = Unbound
    /\ custom_weights = PyUnbound
    /\ symbols = <<>>
    /\ strategy_config_params = PyUnbound
    /\ lookback_min = PyUnbound
    /\ reports = {}
    /\ now = 0
    /\ price_df = NoFrame

Init ==
    /\ Fresh
    /\ strategyFile \in StrategyFiles

Next ==
    \/ UploadStrategyCell
    \/ UploadConfigCell
    \/ RunSystemCell
    \/ TerminateCell
    \/ AllPositionsCell

Spec == Init /\ [][Next]_vars

(***************************************************************************)
(* The backtest notebook                                                   *)
(***************************************************************************)
\* The cells of the notebook within one minute, for a well-formed strategy
\* file.
InitBacktest ==
    /\ Fresh
    /\ strategyFile = "momentum"

NextBacktest ==
    \/ TradeTypeCell
    \/ BacktestUploadCell
    \/ ConfigCell
    \/ RunBacktestCell

SpecBacktest == InitBacktest /\ [][NextBacktest]_vars

\* Repeated runs of the run backtest cell as time passes, for one
\* configuration.
InitReports ==
    /\ session_id = Unbound
    /\ sent = <<>>
    /\ out = Shown("none", "none", <<>>, <<>>)
    /\ strategyFile = "momentum"
    /\ tradeType \in TradeTypes
    /\ weight_method = "equal"
    /\ custom_weights = PyNone
    /\ symbols = UniverseSample
    /\ strategy_config_params = NotebookParams.strategy_config_params
    /\ lookback_min = NotebookParams.lookback_min
    /\ reports = {}
    /\ now = 0
    /\ price_df = NoFrame

NextReports ==
    \/ RunBacktestCell
    \/ Tick

SpecReports == InitReports /\ [][NextReports]_vars

(***************************************************************************)
(* The request cells of both notebooks                                     *)
(***************************************************************************)
\* Kernels in which the configuration cells have been run, for a well-formed
\* strategy file; the cells that talk to the engine are run in any order.
ClientConfigs == {Cfg("equal", PyNone), Cfg("custom", PyNone), Cfg("custom", SampleWeights)}

InitClient ==
    /\ session_id = Unbound
    /\ sent = <<>>
    /\ out = Shown("none", "none", <<>>, <<>>)
    /\ strategyFile = "momentum"
    /\ tradeType = "future"
    /\ \E c \in ClientConfigs :
          /\ weight_method = c.weight_method
          /\ custom_weights = c.custom_weights
    /\ symbols = UniverseSample
    /\ strategy_config_params = NotebookParams.strategy_config_params
    /\ lookback_min = NotebookParams.lookback_min
    /\ reports = {}
    /\ now = 0
    /\ price_df = NoFrame

NextClient ==
    \/ UploadStrategyCell
    \/ UploadConfigCell
    \/ RunSystemCell
    \/ LogViewerCell
    \/ TerminateCell
    \/ AllPositionsCell
    \/ RunBacktestCell

SpecClient == InitClient /\ [][NextClient]_vars

(***************************************************************************)
(* Calls of all_positions                                                  *)
(***************************************************************************)
\* The position cell as the notebook has it, and calls of all_positions
\* with other arguments in the same kernel.
NextConfirm ==
    \/ AllPositionsCell
    \/ AllPositionsCall

SpecConfirm == InitBacktest /\ [][NextConfirm]_vars

(***************************************************************************)
(* Calls of the example strategy                                           *)
(***************************************************************************)
\* The strategy is called on a DataFrame with the strategy_config of the
\* config file.
InitStrategy ==
    /\ session_id = Unbound
    /\ sent = <<>>
    /\ out = Shown("none", "none", <<>>, <<>>)
    /\ strategyFile = "momentum"
    /\ tradeType = Unbound
    /\ weight_method = Unbound
    /\ custom_weights = PyUnbound
    /\ symbols = UniverseSample
    /\ strategy_config_params \in StrategyConfigs
    /\ lookback_min = PyUnbound
    /\ reports = {}
    /\ now = 0
    /\ price_df \in Windows

NextStrategy == StrategyCall

SpecStrategy == InitStrategy /\ [][NextStrategy]_vars

(***************************************************************************)
(* Vocabulary of the properties                                            *)
(***************************************************************************)
\* some entry before position i of the history is an op answered with one of rs
Before(i, op, rs) == \E j \in 1..(i - 1) : sent[j].op = op /\ sent[j].res \in rs

Uploads == {"upload_strategy", "upload_config"}

\* StrategyContract: a 2-tuple of sequences, every element in the universe,
\* the two sequences disjoint.
ContractOK(ret, universe) ==
    /\ ret.tuple
    /\ Range(ret.long) \subseteq Range(universe)
    /\ Range(ret.short) \subseteq Range(universe)
    /\ Range(ret.long) \cap Range(ret.short) = {}

RECURSIVE SumValues(_)
SumValues(items) ==
    IF items = <<>> THEN 0 ELSE items[1].value + SumValues(Tail(items))

Keys(items) == {items[i].key : i \in DOMAIN items}

\* 1e-6 in units of 1e-7
Eps == Unit \div 1000000

SumsToOne(items) ==
    LET d == SumValues(items) - One IN d <= Eps /\ 0 - d <= Eps

\* the last cell run was the run backtest cell and it issued its request
BacktestSent == out.cell = "backtest" /\ out.payload # NoPayload

\* the last cell run was the position cell and it read the list data
PositionsRead == out.cell = "positions" /\ out.reply.kind = "positions" /\ out.reply.has_data

(***************************************************************************)
(* C1..C10                                                                 *)
(***************************************************************************)
\* C1: the session moves only along Created -> Uploading -> Uploaded ->
\* Running -> Terminating -> Terminated -> Reconciled: run-system is issued
\* only after an upload succeeded, terminate only after a run started, the
\* position query only after a termination.
C1_LifecycleOrder ==
    \A i \in DOMAIN sent :
        /\ sent[i].op = "run" => Before(i, "upload_strategy", {"ok"})
        /\ sent[i].op = "terminate" => Before(i, "run", {"ok"})
        /\ sent[i].op = "positions" => Before(i, "terminate", {"ok", "noop"})

\* C2: after an upload that was rejected or failed, the submission halts:
\* no run-system command follows it (unless the same upload succeeded in
\* between, which starts a new submission).
C2_UploadFailureHalts ==
    \A i \in DOMAIN sent : \A j \in DOMAIN sent :
        (/\ i < j
         /\ sent[i].op \in Uploads
         /\ sent[i].res \in {"rejected", "netfail"}
         /\ sent[j].op = "run")
        => \E k \in (i + 1)..(j - 1) : sent[k].op = sent[i].op /\ sent[k].res = "ok"

\* C3: a run-system reply that carries session_id and dashboard_url, at the
\* top level or nested under message, leaves the carried session_id in
\* session_id and shows the carried dashboard.
C3_BothShapesOneSession ==
    (/\ out.cell = "run"
     /\ out.reply.kind = "run"
     /\ CarriedSid(out.reply) # NoSid
     /\ CarriedDashboard(out.reply) # Absent)
    => /\ session_id = CarriedSid(out.reply)
       /\ <<"dashboard :", CarriedDashboard(out.reply)>> \in Range(out.printed)

\* C4: a terminate for a session_id whose terminate was already confirmed is
\* answered to the user as a confirmation, never as an error.
C4_TerminateIdempotent ==
    \A i \in DOMAIN sent : \A j \in DOMAIN sent :
        (/\ i < j
         /\ sent[i].op = "terminate" /\ sent[i].res \in {"ok", "noop"}
         /\ sent[j].op = "terminate" /\ sent[j].sid = sent[i].sid
         /\ sent[j].res # "netfail")
        => sent[j].res \in {"ok", "noop"}

\* C5: reconciliation is reported ("Everything has been liquidated") only
\* for a session that was terminated before.
C5_ReconciledOnlyAfterTerminated ==
    (/\ PositionsRead
     /\ <<"Everything has been liquidated">> \in Range(out.printed))
    => Before(Len(sent), "terminate", {"ok", "noop"})

C7_MalformedNeverUploaded ==
    \A i \in DOMAIN sent :
        sent[i].op = "upload_strategy"
            => ContractOK(StrategyReturn(sent[i].file), UniverseSample)

C9_SumChecked ==
    (BacktestSent /\ out.payload.weight_method = "custom")
    => /\ out.payload.custom_weights.py = "dict"
       /\ SumsToOne(out.payload.custom_weights.items)

\* C10: a backtest request with weight_method custom is sent only with
\* custom_weights that are present and not empty, whose keys are symbols of
\* the universe and whose values are not negative.
C10_KeysAndValuesChecked ==
    (BacktestSent /\ out.payload.weight_method = "custom")
    => /\ Truthy(out.payload.custom_weights)
       /\ Keys(out.payload.custom_weights.items) \subseteq Range(out.payload.symbols)
       /\ \A i \in DOMAIN out.payload.custom_weights.items :
             out.payload.custom_weights.items[i].value >= 0

(***************************************************************************)
(* C11..C20                                                                *)
(***************************************************************************)
\* the rebalancing intervals the engine recognizes
AllowedIntervals == {6, 12, 24, 72}

RECURSIVE MaxOf(_)
MaxOf(seq) ==
    IF seq = <<>> THEN 0
    ELSE LET m == MaxOf(Tail(seq)) IN IF seq[1] > m THEN seq[1] ELSE m

WeightMethods == {"equal", "split", "custom"}

\* C11: a backtest request is sent only for a configuration whose
\* rebalancing_interval_hours is one of 6, 12, 24, 72; any other interval
\* (5, say) is rejected before anything is sent.
C11_IntervalChecked ==
    BacktestSent
    => out.payload.strategy_config.rebalancing_interval_hours \in AllowedIntervals

\* C12: a backtest request is sent only when the lookback window is at least
\* the largest value of the minutes field of strategy_config.
C12_LookbackChecked ==
    BacktestSent
    => out.payload.lookback_minutes.v >= MaxOf(out.payload.strategy_config.minutes)

\* C13: no backtest request carries a weight_method other than equal,
\* split, custom.
C13_WeightMethodChecked ==
    BacktestSent => out.payload.weight_method \in WeightMethods

\* the report file the run backtest cell names at minute now, holding the
\* html_content of the reply r
ReportOf(r) == [name |-> ReportFilename(now, strategy_name), content |-> r.html_content]

\* the last cell run was the run backtest cell and the engine's reply held a report
ReportReceived == BacktestSent /\ out.reply.kind = "backtest" /\ HasReport(out.reply)

Terminates(log) == Cardinality({i \in DOMAIN log : log[i].op = "terminate"})

IsPrefix(a, b) == Len(a) <= Len(b) /\ SubSeq(b, 1, Len(a)) = a

RequestCells ==
    {"upload_strategy", "upload_config", "run", "terminate", "positions", "backtest"}

\* exceptions a cell raises before it reaches its request
RaisedBeforeRequest == {"NameError", "ValueError"}

Printed(m) == \E line \in Range(out.printed) : m \in Range(line)

\* C21: when the engine answers a cell with an error payload, the message
\* of that payload is among the lines the cell shows; when the request
\* fails on the network, the cell ends with the exception or prints the
\* failure.
C21_ErrorsCarryMessage ==
    /\ (out.reply.kind = "upload" /\ out.reply.status = "error") => Printed(out.reply.message)
    /\ (out.reply.kind = "run" /\ CarriedSid(out.reply) = NoSid /\ out.reply.mtext # Absent)
          => Printed(out.reply.mtext)
    /\ (out.reply.kind = "terminate" /\ out.reply.status = "error") => Printed(out.reply.message)
    /\ (out.reply.kind = "positions" /\ ~out.reply.has_data) => Printed(out.reply.message)
    /\ (out.cell \in RequestCells /\ out.reply = NoReply /\ out.exc \notin RaisedBeforeRequest)
          => (out.exc # "none" \/ Printed("API call failed"))

\* the lines the notebooks print as warnings
Warnings ==
    {"WARN: Report type was 'html' but no HTML content found in response.",
     "WARN: Received successful response with unknown report_type"}

\* C22: a cell shows a warning only for positions left open after the
\* termination; no other condition is shown as a warning.
C22_OnlyResidualWarns ==
    \A line \in Range(out.printed) :
        line[1] \in Warnings
            => (PositionsRead /\ out.reply.data # <<>>)

\* the strategy was called and returned
StrategyReturned == out.cell = "strategy" /\ out.exc = "none"

\* the returns over exactly period rows: the last row against the row
\* period rows before it
ReturnsOverPeriod(frame, period) ==
    [c \in DOMAIN frame |-> Return(frame[c][WindowRows], frame[c][WindowRows - period])]

\* C23: called with a period shorter than the frame, the example strategy
\* returns as long the maximum_candidates symbols of highest return
\* price[t] / price[t - period] - 1, highest first, and as short the
\* maximum_candidates symbols of lowest return, where t - period is the row
\* exactly period rows before the last.
C23_MomentumOverPeriod ==
    (out.cell = "strategy" /\ strategy_config_params.minutes[1] < WindowRows)
        => /\ out.exc = "none"
           /\ \E order \in sort_values(ReturnsOverPeriod(price_df, strategy_config_params.minutes[1])) :
                 /\ out.value.long = Index(head(order, strategy_config_params.maximum_candidates))
                 /\ out.value.short = Index(tail(order, strategy_config_params.maximum_candidates))

\* C24: the lists the example strategy returns share no symbol and hold
\* symbols of the universe only, for every number of candidates.
C24_CandidatesDisjoint ==
    StrategyReturned
        => /\ Range(out.value.long) \cap Range(out.value.short) = {}
           /\ Range(out.value.long) \cup Range(out.value.short) \subseteq Range(UniverseSample)

\* C25: the position query of all_positions(user_key, productType,
\* marginCoin) goes to the path of the argument user_key, carries that
\* user_key and the argument productType.
C25_QueryFollowsArguments ==
    out.cell = "positions"
        => /\ out.payload.request.url[2] = out.payload.args.user_key
           /\ out.payload.request.json.user_key = out.payload.args.user_key
           /\ out.payload.request.json.productType = out.payload.args.productType

\* C26: every terminate request carries the session_id of the most recent
\* run-system request that was answered; when that reply carried no
\* session_id, no terminate with the session_id of an earlier run follows.
C26_TerminatesLatestRun ==
    \A j \in DOMAIN sent :
        sent[j].op = "terminate"
            => \A i \in 1..(j - 1) :
                  ( /\ sent[i].op = "run" /\ sent[i].res # "netfail"
                    /\ \A m \in (i + 1)..(j - 1) : ~(sent[m].op = "run" /\ sent[m].res # "netfail") )
                      => sent[j].sid = sent[i].sid

\* C27: the backtest request carries custom_weights exactly when
\* weight_method is custom, and then the mapping of the config cell
\* unchanged; for any other weight method the request has no
\* custom_weights, whatever the variable holds.
C27_CustomWeightsOnlyForCustom ==
    BacktestSent
        => /\ out.payload.weight_method = weight_method
           /\ weight_method = "custom"
                 => (out.payload.custom_weights = custom_weights /\ custom_weights # PyAbsent)
           /\ weight_method # "custom" => out.payload.custom_weights = PyAbsent

C27_Witness ==
    /\ BacktestSent
    /\ weight_method = "equal"
    /\ custom_weights = SampleWeights
    /\ out.payload.custom_weights = PyAbsent

\* the reply is a success that carries an HTML report
ReportInReply(r) ==
    /\ r.kind = "backtest"
    /\ r.result = "json"
    /\ r.report_type = "html"
    /\ r.html_content \in HtmlContents

\* the run backtest cell has just sent its request
BacktestStep == out'.cell = "backtest" /\ sent' # sent

C29_ReportsNeverOverwritten ==
    [][ (BacktestStep /\ Printed("HTML report received and saved successfully")')
        => \A f \in reports : f.name # ReportFilename(now, strategy_name) ]_vars

\* C30: when the strategy was uploaded last under the tradeType the kernel
\* still holds, the backtest request goes to the endpoint of that
\* tradeType, and it names the strategy file that was uploaded.
C30_BacktestOnUploadedTradeType ==
    BacktestSent
        => /\ out.payload.strategy = <<strategy_name, ".py">>
           /\ \A i \in DOMAIN sent :
                 ( /\ sent[i].op = "upload_strategy"
                   /\ sent[i].tt = tradeType
                   /\ \A m \in (i + 1)..Len(sent) : sent[m].op # "upload_strategy" )
                     => sent[Len(sent)].tt = tradeType

====
